---- MODULE Spec2Model ----
(***************************************************************************)
(* ucms_core: the Document<T> value type and the Storage<T> trait with its *)
(* implementation for Vec<Document<T>> (src/ucms_core/src/lib.rs).         *)
(*                                                                         *)
(* Two specifications share the variables:                                 *)
(*   Spec     a Vec<Document<T>> driven through add/get/update/delete;     *)
(*   SpecDoc  one standalone Document driven through new/update.           *)
(* `call` records the last call (operation, arguments, result), `prev` and *)
(* `prev_doc` the storage and the document the call was made on. `track`   *)
(* and `balance` are bookkeeping over the calls made: what was done to     *)
(* each stored document, and the number of add calls minus the number of   *)
(* delete calls that returned true.                                        *)
(***************************************************************************)
EXTENDS Integers, Sequences, FiniteSets, TLC

VARIABLES storage, prev, doc, prev_doc, origin, call, repeat, panicked,
          track, balance

vars == <<storage, prev, doc, prev_doc, origin, call, repeat, panicked,
          track, balance>>

\* ----------------------------------------------------------------- bounds
\* Longest Vec the model builds.
MaxLen == 3

\* Largest version an update is applied up to (the counter is a u32).
MaxVersion == 2

\* ------------------------------------------------------------------- u32
\* Document::version is a u32. It is kept as its two 16-bit halves, its
\* value being hi * 2^16 + lo, so that the counter keeps its 32 bits.
Half == 65536

\* The u32 of a number below 2^31.
U32(n) == [hi |-> n \div Half, lo |-> n % Half]

\* The number a u32 below 2^31 stands for.
Value(v) == v.hi * Half + v.lo

\* u32::MAX
U32Max == [hi |-> Half - 1, lo |-> Half - 1]

\* v + 1 in 32 bits: u32::MAX + 1 wraps to 0.
WrappingAdd1(v) ==
    IF v.lo < Half - 1 THEN [hi |-> v.hi, lo |-> v.lo + 1]
    ELSE IF v.hi < Half - 1 THEN [hi |-> v.hi + 1, lo |-> 0]
    ELSE [hi |-> 0, lo |-> 0]

\* n + 1 for a count of calls, which is kept in 16-bit halves like a u32 but
\* never wraps (hi grows past 2^16 - 1).
Succ(n) ==
    IF n.lo < Half - 1 THEN [hi |-> n.hi, lo |-> n.lo + 1]
    ELSE [hi |-> n.hi + 1, lo |-> 0]

\* ----------------------------------------------------------------- inputs
\* Option<X>: None is the empty tuple, Some(x) the one-element tuple.
None == <<>>

Some(x) == <<x>>

\* Ids the callers pass (usize).
Ids == {1, 2}

\* (id, content, created_at) of the documents constructed for a storage; the
\* two documents of tests::storage.
NewInputs == {<<1, "a", 0>>, <<2, "b", 1>>}

\* (content, modified_at) passed to Storage::update; the timestamps are not
\* ordered by content, so a later update may carry a smaller timestamp.
UpdateInputs == {<<"b", 2>>, <<"c", 1>>}

\* (id, content, created_at) passed to Document::new for the standalone
\* document.
DocNewInputs == Ids \X {"a", "b"} \X {0, 1, 2}

\* (content, modified_at) passed to Document::update on the standalone
\* document.
DocUpdateInputs == {"a", "b", "c"} \X {0, 1, 2}

\* ------------------------------------------------------------ Document<T>
\* Mutant of DocumentNew: the constructor stamps modified_at with created_at.
DocumentNewStamped(id, content, created_at) ==
    [id |-> id,
     content |-> content,
     created_at |-> created_at,
     modified_at |-> Some(created_at),
     version |-> U32(0)]

\* Document::new
DocumentNew(id, content, created_at) ==
    [id |-> id,
     content |-> content,
     created_at |-> created_at,
     modified_at |-> None,
     version |-> U32(0)]

\* `self.version + 1` on a u32 overflows at u32::MAX.
Overflows(self) == self.version = U32Max

\* Mutant of DocumentUpdate: created_at is overwritten with the update time.
DocumentUpdateTouchCreated(self, content, modified_at) ==
    [id |-> self.id,
     content |-> content,
     created_at |-> modified_at,
     modified_at |-> Some(modified_at),
     version |-> WrappingAdd1(self.version)]

\* Mutant of DocumentUpdate: the version is not incremented.
DocumentUpdateKeepVersion(self, content, modified_at) ==
    [id |-> self.id,
     content |-> content,
     created_at |-> self.created_at,
     modified_at |-> Some(modified_at),
     version |-> self.version]

\* Mutant of DocumentUpdate: modified_at never goes back in time.
DocumentUpdateMonotonic(self, content, modified_at) ==
    [id |-> self.id,
     content |-> content,
     created_at |-> self.created_at,
     modified_at |-> IF self.modified_at # None /\ self.modified_at[1] > modified_at
                     THEN self.modified_at
                     ELSE Some(modified_at),
     version |-> WrappingAdd1(self.version)]

\* Document::update; the version is computed in 32 bits (the value a build
\* without overflow checks produces; a build with them panics instead, see
\* Update and DocUpdate).
DocumentUpdate(self, content, modified_at) ==
    [id |-> self.id,
     content |-> content,
     created_at |-> self.created_at,
     modified_at |-> Some(modified_at),
     version |-> WrappingAdd1(self.version)]

\* {:?} of an Option<u64>.
DebugOption(o) == IF o = None THEN "None" ELSE "Some(" \o ToString(o[1]) \o ")"

\* Mutant of Display: modified_at is written without its Some(..) wrapper.
DisplayUnwrapped(self) ==
    "Document { id: " \o ToString(self.id)
    \o ", content: " \o self.content
    \o ", created_at: " \o ToString(self.created_at)
    \o ", modified_at: "
    \o (IF self.modified_at = None THEN "None" ELSE ToString(self.modified_at[1]))
    \o ", version: " \o ToString(Value(self.version)) \o " }"

\* impl Display for Document<T>, for a content that displays as itself (a
\* &str) and a version below 2^31.
Display(self) ==
    "Document { id: " \o ToString(self.id)
    \o ", content: " \o self.content
    \o ", created_at: " \o ToString(self.created_at)
    \o ", modified_at: " \o DebugOption(self.modified_at)
    \o ", version: " \o ToString(Value(self.version)) \o " }"

\* The update counter is capped by MaxVersion; a document whose counter is
\* at u32::MAX may still be updated.
VersionInBound(self) ==
    \/ self.version = U32Max
    \/ self.version.hi = 0 /\ self.version.lo < MaxVersion

\* ------------------------------------------------- Vec<Document<T>> helpers
RECURSIVE PositionFrom(_, _, _)
\* The scan of iter().find / iter_mut().find / iter().position from index i:
\* the first index whose document has the id, 0 when the scan ends without.
PositionFrom(self, id, i) ==
    IF i > Len(self) THEN 0
    ELSE IF self[i].id = id THEN i
    ELSE PositionFrom(self, id, i + 1)

\* Mutant of Position: the last match (rposition) instead of the first.
PositionLast(self, id) ==
    LET M == {i \in 1..Len(self) : self[i].id = id}
    IN  IF M = {} THEN 0 ELSE CHOOSE i \in M : \A j \in M : j <= i

\* iter().position(|doc| doc.id == id): 0 stands for None.
Position(self, id) == PositionFrom(self, id, 1)

\* Mutant of Remove: Vec::swap_remove, the last element takes the place of
\* the removed one.
SwapRemove(self, index) ==
    IF index = Len(self) THEN SubSeq(self, 1, Len(self) - 1)
    ELSE [i \in 1..(Len(self) - 1) |-> IF i = index THEN self[Len(self)] ELSE self[i]]

\* Vec::remove(index): the later elements shift down by one.
Remove(self, index) ==
    SubSeq(self, 1, index - 1) \o SubSeq(self, index + 1, Len(self))

\* ------------------------------------------- impl Storage for Vec<Document>
\* Mutant of StorageAdd: a document whose id is stored already is rejected.
StorageAddUnique(self, document) ==
    IF \E i \in 1..Len(self) : self[i].id = document.id
    THEN self
    ELSE Append(self, document)

\* Mutant of StorageAdd: the document is inserted at the front.
StorageAddFront(self, document) == <<document>> \o self

\* Storage::add
StorageAdd(self, document) == Append(self, document)

\* Mutant of StorageGet: the document found is taken out of the storage.
StorageGetTake(self, id) ==
    LET i == Position(self, id)
    IN  IF i # 0
        THEN [self |-> Remove(self, i), ret |-> Some(self[i])]
        ELSE [self |-> self, ret |-> None]

\* Storage::get (takes &self)
StorageGet(self, id) ==
    LET i == Position(self, id)
    IN  [self |-> self, ret |-> IF i # 0 THEN Some(self[i]) ELSE None]

\* Mutant of StorageUpdate: every document with the id is updated.
StorageUpdateAll(self, id, content, modified_at) ==
    IF Position(self, id) # 0
    THEN [self |-> [i \in 1..Len(self) |->
                        IF self[i].id = id
                        THEN DocumentUpdate(self[i], content, modified_at)
                        ELSE self[i]],
          ret |-> TRUE]
    ELSE [self |-> self, ret |-> FALSE]

\* Mutant of StorageUpdate: the last document with the id is updated.
StorageUpdateLast(self, id, content, modified_at) ==
    LET i == PositionLast(self, id)
    IN  IF i # 0
        THEN [self |-> [self EXCEPT ![i] = DocumentUpdate(self[i], content, modified_at)],
              ret |-> TRUE]
        ELSE [self |-> self, ret |-> FALSE]

\* Mutant of StorageUpdate: a missing id is inserted (an upsert).
StorageUpdateUpsert(self, id, content, modified_at) ==
    LET i == Position(self, id)
    IN  IF i # 0
        THEN [self |-> [self EXCEPT ![i] = DocumentUpdate(self[i], content, modified_at)],
              ret |-> TRUE]
        ELSE [self |-> Append(self, DocumentNew(id, content, modified_at)),
              ret |-> FALSE]

\* Storage::update
StorageUpdate(self, id, content, modified_at) ==
    LET i == Position(self, id)
    IN  IF i # 0
        THEN [self |-> [self EXCEPT ![i] = DocumentUpdate(self[i], content, modified_at)],
              ret |-> TRUE]
        ELSE [self |-> self, ret |-> FALSE]

\* Mutant of StorageDelete: every document with the id is removed (retain).
StorageDeleteAll(self, id) ==
    IF Position(self, id) # 0
    THEN [self |-> SelectSeq(self, LAMBDA d : d.id # id), ret |-> TRUE]
    ELSE [self |-> self, ret |-> FALSE]

\* Mutant of StorageDelete: the last document with the id is removed.
StorageDeleteLast(self, id) ==
    LET index == PositionLast(self, id)
    IN  IF index # 0
        THEN [self |-> Remove(self, index), ret |-> TRUE]
        ELSE [self |-> self, ret |-> FALSE]

\* Mutant of StorageDelete: true is returned whether or not a document was
\* removed.
StorageDeleteAlwaysTrue(self, id) ==
    LET index == Position(self, id)
    IN  IF index # 0
        THEN [self |-> Remove(self, index), ret |-> TRUE]
        ELSE [self |-> self, ret |-> TRUE]

\* Storage::delete
StorageDelete(self, id) ==
    LET index == Position(self, id)
    IN  IF index # 0
        THEN [self |-> Remove(self, index), ret |-> TRUE]
        ELSE [self |-> self, ret |-> FALSE]

\* ------------------------------------------------------------------ state
\* Document::new(..) handed to add as constructed.
FreshDocs == {DocumentNew(n[1], n[2], n[3]) : n \in NewInputs}

\* Document::new(..).update(..) handed to add.
UpdatedDocs ==
    {DocumentUpdate(DocumentNew(n[1], n[2], n[3]), u[1], u[2]) :
        n \in NewInputs, u \in UpdateInputs}

\* The documents a caller hands to add: freshly constructed ones and ones
\* already updated once before being stored.
AddDocs == FreshDocs \cup UpdatedDocs

\* The indices of the documents of `self` whose id is `id`.
Matches(self, id) == {i \in 1..Len(self) : self[i].id = id}

Min(S) == CHOOSE x \in S : \A y \in S : x <= y

\* Bookkeeping of a document just added: the document as added, whether it
\* was added as constructed, the successful Storage::update calls that
\* replaced it since and the timestamp of the last one.
Tracked(document) ==
    [added |-> document,
     fresh |-> document \in FreshDocs,
     updates |-> U32(0),
     last |-> None]

\* The bookkeeping after a Storage::update that returned `ret`: the call
\* counts for the first document with the id at the time of the call.
TrackUpdate(self, id, modified_at, ret) ==
    IF ret /\ Matches(self, id) # {}
    THEN [track EXCEPT ![Min(Matches(self, id))] =
            [added |-> @.added,
             fresh |-> @.fresh,
             updates |-> Succ(@.updates),
             last |-> Some(modified_at)]]
    ELSE track

\* The bookkeeping after a Storage::delete that returned `ret`: the first
\* document with the id is gone.
TrackDelete(self, id, ret) ==
    IF ret /\ Matches(self, id) # {}
    THEN LET k == Min(Matches(self, id))
         IN  SubSeq(track, 1, k - 1) \o SubSeq(track, k + 1, Len(track))
    ELSE track

\* Vec::new(), no standalone document, no call made yet.
Init ==
    /\ storage = <<>>
    /\ prev = <<>>
    /\ doc = None
    /\ prev_doc = None
    /\ origin = None
    /\ call = [op |-> "init", args |-> <<>>, ret |-> <<>>]
    /\ repeat = FALSE
    /\ panicked = FALSE
    /\ track = <<>>
    /\ balance = 0

\* storage.add(document)
Add ==
    /\ ~panicked
    /\ Len(storage) < MaxLen
    /\ \E document \in AddDocs :
        /\ storage' = StorageAdd(storage, document)
        /\ call' = [op |-> "add", args |-> <<document>>, ret |-> <<>>]
        /\ track' = Append(track, Tracked(document))
    /\ prev' = storage
    /\ repeat' = FALSE
    /\ balance' = balance + 1
    /\ UNCHANGED <<doc, prev_doc, origin, panicked>>

\* storage.get(id)
Get ==
    /\ ~panicked
    /\ \E id \in Ids :
        LET r == StorageGet(storage, id)
        IN  /\ storage' = r.self
            /\ call' = [op |-> "get", args |-> <<id>>, ret |-> r.ret]
    /\ prev' = storage
    /\ repeat' = FALSE
    /\ UNCHANGED <<doc, prev_doc, origin, panicked, track, balance>>

\* storage.update(id, content, modified_at); when the version addition
\* overflows, a build with overflow checks panics before anything is stored.
Update ==
    /\ ~panicked
    /\ \E id \in Ids, u \in UpdateInputs, overflow_checks \in BOOLEAN :
        LET i == Position(storage, id)
            r == StorageUpdate(storage, id, u[1], u[2])
        IN  /\ i # 0 => VersionInBound(storage[i])
            /\ IF i # 0 /\ Overflows(storage[i]) /\ overflow_checks
               THEN /\ panicked' = TRUE
                    /\ storage' = storage
                    /\ call' = [op |-> "update", args |-> <<id, u[1], u[2]>>, ret |-> <<>>]
                    /\ track' = track
               ELSE /\ panicked' = FALSE
                    /\ storage' = r.self
                    /\ call' = [op |-> "update", args |-> <<id, u[1], u[2]>>, ret |-> r.ret]
                    /\ track' = TrackUpdate(storage, id, u[2], r.ret)
    /\ prev' = storage
    /\ repeat' = FALSE
    /\ UNCHANGED <<doc, prev_doc, origin, balance>>

\* storage.delete(id); `repeat` notes that the call before was a delete of
\* the same id that returned true.
Delete ==
    /\ ~panicked
    /\ \E id \in Ids :
        LET r == StorageDelete(storage, id)
        IN  /\ storage' = r.self
            /\ call' = [op |-> "delete", args |-> <<id>>, ret |-> r.ret]
            /\ repeat' = (call.op = "delete" /\ call.args[1] = id /\ call.ret = TRUE)
            /\ track' = TrackDelete(storage, id, r.ret)
            /\ balance' = IF r.ret THEN balance - 1 ELSE balance
    /\ prev' = storage
    /\ UNCHANGED <<doc, prev_doc, origin, panicked>>

Next == Add \/ Get \/ Update \/ Delete

Spec == Init /\ [][Next]_vars

\* A document that has been updated u32::MAX times since Document::new (the
\* state of the storage after that many update(1, "b", 2) calls on an added
\* Document::new(1, "a", 0)).
DocAtMax ==
    [id |-> 1,
     content |-> "b",
     created_at |-> 0,
     modified_at |-> Some(2),
     version |-> U32Max]

\* The storage holds one document whose version counter is at u32::MAX.
InitMax ==
    /\ storage = <<DocAtMax>>
    /\ prev = <<DocAtMax>>
    /\ doc = None
    /\ prev_doc = None
    /\ origin = None
    /\ call = [op |-> "update", args |-> <<1, "b", 2>>, ret |-> TRUE]
    /\ repeat = FALSE
    /\ panicked = FALSE
    /\ track = <<[added |-> DocumentNew(1, "a", 0),
                  fresh |-> TRUE,
                  updates |-> U32Max,
                  last |-> Some(2)]>>
    /\ balance = 1

SpecMax == InitMax /\ [][Next]_vars

\* let doc = Document::new(id, content, created_at)
New ==
    /\ ~panicked
    /\ \E n \in DocNewInputs :
        /\ doc' = Some(DocumentNew(n[1], n[2], n[3]))
        /\ origin' = Some(DocumentNew(n[1], n[2], n[3]))
        /\ call' = [op |-> "new", args |-> n, ret |-> <<>>]
    /\ prev_doc' = doc
    /\ UNCHANGED <<storage, prev, repeat, panicked, track, balance>>

\* let doc = doc.update(content, modified_at)
DocUpdate ==
    /\ ~panicked
    /\ doc # None
    /\ VersionInBound(doc[1])
    /\ \E u \in DocUpdateInputs, overflow_checks \in BOOLEAN :
        IF Overflows(doc[1]) /\ overflow_checks
        THEN /\ panicked' = TRUE
             /\ doc' = doc
             /\ call' = [op |-> "doc_update", args |-> u, ret |-> <<>>]
        ELSE /\ panicked' = FALSE
             /\ doc' = Some(DocumentUpdate(doc[1], u[1], u[2]))
             /\ call' = [op |-> "doc_update", args |-> u, ret |-> <<>>]
    /\ prev_doc' = doc
    /\ UNCHANGED <<storage, prev, origin, repeat, track, balance>>

NextDoc == New \/ DocUpdate

SpecDoc == Init /\ [][NextDoc]_vars

\* ----------------------------------------------------------------- claims
\* The id the last storage get/update/delete was called with.
CallId == call.args[1]

\* C1: get(id) returns the first document, in sequence order, whose id is
\* the argument, and None exactly when no stored document has that id, also
\* when several stored documents share the id.
C1_GetFirstMatch ==
    call.op = "get" =>
        LET M == Matches(prev, CallId)
        IN  /\ call.ret = None <=> M = {}
            /\ M # {} => call.ret = Some(prev[Min(M)])

\* A get that found a document while a later, different document had the
\* same id.
C1_Witness ==
    /\ call.op = "get"
    /\ call.ret # None
    /\ \E j \in Matches(prev, CallId) : prev[j] # call.ret[1]

\* C2: update(id, content, modified_at) on a storage holding the id returns
\* true and replaces the first document with that id, at its position, by
\* Document::update(content, modified_at) of it; the length and every other
\* document, later ones with the same id included, are unchanged.
C2_UpdateReplacesFirst ==
    (call.op = "update" /\ Matches(prev, CallId) # {}) =>
        LET i == Min(Matches(prev, CallId))
        IN  /\ call.ret = TRUE
            /\ Len(storage) = Len(prev)
            /\ storage[i] = DocumentUpdate(prev[i], call.args[2], call.args[3])
            /\ \A j \in 1..Len(prev) : j # i => storage[j] = prev[j]

\* An update that succeeded on a storage holding the id more than once.
C2_Witness ==
    /\ call.op = "update"
    /\ call.ret = TRUE
    /\ Cardinality(Matches(prev, CallId)) >= 2
    /\ storage # prev

\* C3: update(k, c, t) on a storage in which no document has id k returns
\* false and leaves the whole sequence unchanged.
C3_UpdateMissingNoOp ==
    (call.op = "update" /\ Matches(prev, CallId) = {}) =>
        /\ call.ret = FALSE
        /\ storage = prev

\* An update of an id that a non-empty storage does not hold.
C3_Witness ==
    /\ call.op = "update"
    /\ Matches(prev, CallId) = {}
    /\ Len(prev) >= 2
    /\ call.ret = FALSE

\* C4: delete(id) on a storage holding the id removes exactly the first
\* document with that id, keeps the others unchanged and in their order, and
\* returns true; on a storage not holding it, it returns false and leaves the
\* sequence unchanged.
C4_DeleteRemovesFirst ==
    call.op = "delete" =>
        LET M == Matches(prev, CallId)
        IN  IF M # {}
            THEN /\ call.ret = TRUE
                 /\ Len(storage) = Len(prev) - 1
                 /\ \A j \in 1..Len(storage) :
                        storage[j] = IF j < Min(M) THEN prev[j] ELSE prev[j + 1]
            ELSE /\ call.ret = FALSE
                 /\ storage = prev

\* A delete that removed the first of three documents, a later one having
\* the same id and the two survivors being different documents.
C4_Witness ==
    /\ call.op = "delete"
    /\ call.ret = TRUE
    /\ Len(prev) = 3
    /\ Min(Matches(prev, CallId)) = 1
    /\ Cardinality(Matches(prev, CallId)) >= 2
    /\ prev[2] # prev[3]

\* C5 as stated: once delete(k) has returned true, the next delete(k) (no
\* add in between) returns false.
C5_DeleteTwiceTrueThenFalse == repeat => call.ret = FALSE

\* C5, amended: once delete(k) has returned true, an immediately following
\* delete(k) returns false exactly when the storage held one document with
\* id k before the first delete; when it held several, it returns true again.
C5_SecondDeleteFalseIffSingle ==
    [][(/\ call.op = "delete"
        /\ call.ret = TRUE
        /\ call'.op = "delete"
        /\ call'.args = call.args)
       => (call'.ret = FALSE <=> Cardinality(Matches(prev, CallId)) = 1)]_vars

\* Two consecutive delete(k), the first returning true and the second false.
C5_Witness ==
    /\ call.op = "delete"
    /\ repeat
    /\ call.ret = FALSE

\* C6: add(d) appends d, unmodified, at the end whatever ids are stored:
\* the length grows by one, every stored document keeps its position, and a
\* document with the same id that was stored before is still there.
C6_AddAppends ==
    /\ call.op = "add" =>
        /\ Len(storage) = Len(prev) + 1
        /\ storage[Len(storage)] = call.args[1]
        /\ \A i \in 1..Len(prev) : storage[i] = prev[i]
    /\ \A d \in AddDocs :
        LET s == StorageAdd(storage, d)
        IN  /\ Len(s) = Len(storage) + 1
            /\ s[Len(s)] = d
            /\ \A i \in 1..Len(storage) : s[i] = storage[i]

\* An add of a document whose id was stored already.
C6_Witness ==
    /\ call.op = "add"
    /\ Matches(prev, call.args[1].id) # {}
    /\ Cardinality(Matches(storage, call.args[1].id)) >= 2

\* C7: right after update(id, c, t) returned true, get(id) returns a
\* document with content c, modified_at Some(t) and a version one more than
\* the version get(id) returned right before the update.
C7_ReadYourWrites ==
    (call.op = "update" /\ call.ret = TRUE) =>
        LET before == StorageGet(prev, CallId).ret
            after == StorageGet(storage, CallId).ret
        IN  /\ before # None
            /\ after # None
            /\ after[1].content = call.args[2]
            /\ after[1].modified_at = Some(call.args[3])
            /\ Value(after[1].version) = Value(before[1].version) + 1

\* A successful update of an id stored twice, the two documents differing
\* afterwards, on a document that had been updated before.
C7_Witness ==
    /\ call.op = "update"
    /\ call.ret = TRUE
    /\ \E j \in Matches(storage, CallId) : storage[j] # StorageGet(storage, CallId).ret[1]
    /\ Value(StorageGet(storage, CallId).ret[1].version) = 2

\* C8: get never changes the stored sequence, and a second get(id) right
\* after a get(id) returns what the first returned.
C8_GetReadOnly ==
    /\ call.op = "get" =>
        /\ storage = prev
        /\ StorageGet(storage, CallId).ret = call.ret
    /\ \A id \in Ids : StorageGet(storage, id).self = storage

\* A get that found a document in a storage of several.
C8_Witness ==
    /\ call.op = "get"
    /\ call.ret # None
    /\ Len(storage) >= 2

\* C9: Document::update(content', t') on d returns a document with version
\* d.version + 1, d's id and created_at, content content' and modified_at
\* Some(t'); id and created_at stay those of Document::new over any number
\* of updates.
C9_DocumentUpdate ==
    call.op = "doc_update" =>
        /\ doc[1].id = prev_doc[1].id
        /\ doc[1].created_at = prev_doc[1].created_at
        /\ doc[1].content = call.args[1]
        /\ doc[1].modified_at = Some(call.args[2])
        /\ Value(doc[1].version) = Value(prev_doc[1].version) + 1
        /\ doc[1].id = origin[1].id
        /\ doc[1].created_at = origin[1].created_at

\* A second update, with a content and a timestamp that differ from those
\* of the document as constructed.
C9_Witness ==
    /\ call.op = "doc_update"
    /\ Value(doc[1].version) = 2
    /\ doc[1].content # origin[1].content
    /\ doc[1].modified_at # Some(doc[1].created_at)
    /\ doc[1].modified_at # prev_doc[1].modified_at

\* C10: Document::new(id, content, created_at) yields, for every input, a
\* document with that id, content and created_at, version 0 and modified_at
\* None.
C10_DocumentNew ==
    /\ call.op = "new" =>
        /\ doc # None
        /\ doc[1].id = call.args[1]
        /\ doc[1].content = call.args[2]
        /\ doc[1].created_at = call.args[3]
        /\ doc[1].modified_at = None
        /\ Value(doc[1].version) = 0
    /\ \A n \in DocNewInputs :
        LET d == DocumentNew(n[1], n[2], n[3])
        IN  /\ <<d.id, d.content, d.created_at>> = n
            /\ d.modified_at = None
            /\ Value(d.version) = 0

\* A document constructed over one that had been updated.
C10_Witness ==
    /\ call.op = "new"
    /\ prev_doc # None
    /\ prev_doc[1].modified_at # None
    /\ doc[1].created_at = 2

\* C11: no operation panics or aborts on any reachable state and argument,
\* an update of a document whose version is u32::MAX included.
C11_NoPanic == ~panicked

\* modified_at is None exactly when the version is 0.
ModifiedIffVersioned(d) == (d.modified_at = None) <=> (d.version = U32(0))

\* C12: every document, stored or standalone, produced by Document::new
\* followed by Document::update or Storage::update steps has modified_at
\* None if and only if its version is 0.
C12_ModifiedIffVersioned ==
    /\ \A i \in 1..Len(storage) :
        /\ ModifiedIffVersioned(storage[i])
        /\ \A u \in UpdateInputs :
            ModifiedIffVersioned(DocumentUpdate(storage[i], u[1], u[2]))
    /\ \A n \in DocNewInputs : ModifiedIffVersioned(DocumentNew(n[1], n[2], n[3]))

\* A storage holding a document never updated and one updated twice, right
\* after an update.
C12_Witness ==
    /\ call.op = "update"
    /\ call.ret = TRUE
    /\ \E i, j \in 1..Len(storage) :
        /\ storage[i].modified_at = None
        /\ Value(storage[j].version) = 2

\* C13: the version of every stored document that was added as constructed
\* equals the number of Storage::update calls that returned true and
\* replaced it (it was the first match of the call); no other call changes
\* it.
C13_VersionCountsUpdates ==
    /\ Len(track) = Len(storage)
    /\ \A i \in 1..Len(storage) :
        track[i].fresh => storage[i].version = track[i].updates

\* Two documents with the same id, both added as constructed: the first was
\* replaced by two updates, the second by none, and the last call was an
\* update of another id that returned false.
C13_Witness ==
    /\ call.op = "update"
    /\ call.ret = FALSE
    /\ \E i, j \in 1..Len(storage) :
        /\ i < j
        /\ storage[i].id = storage[j].id
        /\ track[i].fresh
        /\ track[j].fresh
        /\ Value(track[i].updates) = 2
        /\ Value(storage[j].version) = 0

\* C14: the rendering of a document is "Document { id: I, content: C,
\* created_at: T, modified_at: M, version: V }" with its five fields in that
\* order, M being None when modified_at is absent and Some(v) when it is v.
C14_Rendering ==
    /\ doc # None =>
        Display(doc[1]) =
            "Document { id: " \o ToString(doc[1].id)
            \o ", content: " \o doc[1].content
            \o ", created_at: " \o ToString(doc[1].created_at)
            \o ", modified_at: "
            \o (IF doc[1].modified_at = None
                THEN "None"
                ELSE "Some(" \o ToString(doc[1].modified_at[1]) \o ")")
            \o ", version: " \o ToString(Value(doc[1].version)) \o " }"
    /\ Display(DocumentNew(1, "Hello, world!", 0)) =
        "Document { id: 1, content: Hello, world!, created_at: 0, modified_at: None, version: 0 }"
    /\ Display(DocumentUpdate(DocumentNew(1, "Hello, world!", 0), "Hello, Rust!", 1)) =
        "Document { id: 1, content: Hello, Rust!, created_at: 0, modified_at: Some(1), version: 1 }"

\* A document updated twice whose rendering is a Some(..) one.
C14_Witness ==
    /\ call.op = "doc_update"
    /\ doc[1].modified_at = Some(2)
    /\ Value(doc[1].version) = 2
    /\ Display(doc[1]) =
        "Document { id: 2, content: c, created_at: 1, modified_at: Some(2), version: 2 }"

\* `new` is `old` with the element at k taken out.
Without(old, k, new) ==
    /\ Len(new) = Len(old) - 1
    /\ \A j \in 1..Len(new) : new[j] = IF j < k THEN old[j] ELSE old[j + 1]

\* C15: the stored documents are, position by position, the documents added
\* and not deleted since, in the order they were added; an update keeps
\* every document at its position and a delete takes one element out
\* without reordering the others.
C15_InsertionOrder ==
    /\ Len(track) = Len(storage)
    /\ \A i \in 1..Len(storage) :
        /\ storage[i].id = track[i].added.id
        /\ storage[i].created_at = track[i].added.created_at
        /\ track[i].updates = U32(0) => storage[i] = track[i].added
    /\ call.op = "update" =>
        /\ Len(storage) = Len(prev)
        /\ \A i \in 1..Len(prev) :
            /\ storage[i].id = prev[i].id
            /\ storage[i].created_at = prev[i].created_at
    /\ call.op = "delete" =>
        \/ storage = prev
        \/ \E k \in 1..Len(prev) : Without(prev, k, storage)
    /\ call.op = "add" => SubSeq(storage, 1, Len(prev)) = prev
    /\ call.op = "get" => storage = prev

\* A delete took the first of three documents out, the survivors being
\* different documents, one of them updated since it was added.
C15_Witness ==
    /\ call.op = "delete"
    /\ call.ret = TRUE
    /\ Len(prev) = 3
    /\ prev[1] # storage[1]
    /\ storage[1].id # storage[2].id
    /\ \E i \in 1..2 : track[i].updates # U32(0)

\* C16: modified_at of every stored document that was added as constructed
\* is None while no successful Storage::update has replaced it, and the
\* timestamp of the latest such update otherwise, smaller or not than the
\* one before.
C16_ModifiedAtIsLastUpdate ==
    /\ Len(track) = Len(storage)
    /\ \A i \in 1..Len(storage) :
        track[i].fresh =>
            /\ storage[i].modified_at = track[i].last
            /\ track[i].updates = U32(0) <=> track[i].last = None

\* An update with timestamp 1 has replaced a document, added as constructed,
\* whose modified_at was Some(2).
C16_Witness ==
    /\ call.op = "update"
    /\ call.ret = TRUE
    /\ call.args[3] = 1
    /\ LET i == Min(Matches(prev, CallId))
       IN  /\ track[i].fresh
           /\ prev[i].modified_at = Some(2)
           /\ storage[i].modified_at = Some(1)

\* C17: update(id, ..) and delete(id) return true exactly when get(id) finds
\* a document right before the call.
C17_FlagsAgreeWithGet ==
    /\ call.op \in {"update", "delete"} =>
        (call.ret = TRUE <=> StorageGet(prev, CallId).ret # None)
    /\ \A id \in Ids :
        /\ StorageDelete(storage, id).ret = (StorageGet(storage, id).ret # None)
        /\ \A u \in UpdateInputs :
            StorageUpdate(storage, id, u[1], u[2]).ret = (StorageGet(storage, id).ret # None)

\* A delete returned false on a non-empty storage in which get finds
\* nothing for the id.
C17_Witness ==
    /\ call.op = "delete"
    /\ call.ret = FALSE
    /\ Len(prev) >= 2
    /\ StorageGet(prev, CallId).ret = None

\* C18: add makes the storage one longer, a delete that returns true one
\* shorter, every other call leaves the length; the length is the number of
\* adds minus the number of deletes that returned true, and never negative.
C18_LengthAccounting ==
    /\ Len(storage) = balance
    /\ balance >= 0
    /\ call.op = "add" => Len(storage) = Len(prev) + 1
    /\ call.op = "delete" =>
        Len(storage) = IF call.ret = TRUE THEN Len(prev) - 1 ELSE Len(prev)
    /\ call.op \in {"get", "update"} => Len(storage) = Len(prev)

\* The second of two consecutive successful deletes of an id stored twice,
\* which leaves one document.
C18_Witness ==
    /\ call.op = "delete"
    /\ call.ret = TRUE
    /\ repeat
    /\ Len(prev) = 2
    /\ balance = 1

\* C19: while an earlier document with the same id is stored, a document is
\* not the one get returns, is not changed by update and is not removed by
\* delete for that id; after delete(k) returned true, get(k) returns the
\* next document with id k if there is one and None otherwise.
C19_Shadowing ==
    call.op \in {"get", "update", "delete"} =>
        LET M == Matches(prev, CallId)
            shadowed == M \ {Min(M)}
        IN  M # {} =>
            /\ call.op = "get" => call.ret = Some(prev[Min(M)])
            /\ call.op = "update" => \A j \in shadowed : storage[j] = prev[j]
            /\ call.op = "delete" =>
                /\ call.ret = TRUE
                /\ Len(storage) = Len(prev) - 1
                /\ \A j \in shadowed : storage[j - 1] = prev[j]
                /\ StorageGet(storage, CallId).ret =
                    IF shadowed = {} THEN None ELSE Some(prev[Min(shadowed)])

\* A successful delete of an id stored twice, the two documents being
\* different, after which get returns the second.
C19_Witness ==
    /\ call.op = "delete"
    /\ call.ret = TRUE
    /\ LET M == Matches(prev, CallId)
       IN  /\ Cardinality(M) >= 2
           /\ prev[Min(M)] # prev[Min(M \ {Min(M)})]
           /\ StorageGet(storage, CallId).ret = Some(prev[Min(M \ {Min(M)})])

====
